---- MODULE Spec2Model ----
(***************************************************************************)
(* rust-zexp: a Script collects command-term loaders, the terms are        *)
(* composed into commands, and main runs the resulting tasks on a rayon    *)
(* thread pool (src/src/main.rs, src/src/script.rs); a TACLe description   *)
(* lists bench sets (src/src/tacle.rs).                                    *)
(*                                                                         *)
(* The state machines of this module:                                     *)
(*   Spec       - main(): path check, Script::from_file, the loader        *)
(*                registrations, gen_cmd, run_tasks_concurrently;          *)
(*   FairSpec   - Spec with the scheduling fairness of threads and the     *)
(*                finite timeout;                                          *)
(*   ScriptSpec - a Script object driven through register_loader;          *)
(*   ExpandSpec - CommandComposition::from_script and                      *)
(*                build_all_command_to_run on a Script with its loaders;   *)
(*   LoaderSpec - a Script with the loaders of script.rs registered,       *)
(*                expanded twice on one configuration;                     *)
(*   TacleSpec  - a TACLe description queried by gen_exec_entry_pair.      *)
(***************************************************************************)
EXTENDS Integers, Sequences, FiniteSets

\* ------------------------------------------------------------------ bounds
MaxCores == 2
MaxTasks == 3
MaxRegs == 3
MaxOpts == 2
MaxTuples == 3
MaxWidth == 2
MaxSets == 2

\* --------------------------------------------------------------- variables
VARIABLES
  mainPc,        \* position of main(): see MainPcs
  num_cores,     \* Args::j
  cmd,           \* main's `cmd`: the task list gen_cmd returned (task ids)
  tasks,         \* the Mutex<Vec<Task>> of run_tasks_concurrently
  iter,          \* the `for _ in 0..num_cores` counter
  scopePc,       \* position of the pool.scope closure: see ScopePcs
  scopeOwner,    \* the pool thread that runs the scope closure (0: none)
  locked,        \* the queue mutex is held
  popped,        \* the task the closure holds between pop and s.spawn (0: none)
  deque,         \* jobs pushed by s.spawn, oldest first
  running,       \* pool thread -> task whose job it executes (0: idle)
  st,            \* task -> status: see Statuses
  launched,      \* task -> number of times its job body was entered
  exit_code,     \* task -> exit code of its child (-1: none)
  child,         \* task -> "none" | "exits" | "hangs": the spawned process
  created,       \* task -> its <name>.out has been created
  panic,         \* the scope has stored a job's panic
  name,          \* task -> Task::name
  stdio,         \* task -> where stdout and stderr of its child go
  script_config, \* Script::script_config: the keys of the TOML table
  loaded_opts,   \* Script::loaded_opts
  loaders,       \* Script::loaders
  regCalls,      \* number of register_loader calls made so far
  lastReg,       \* the last register_loader call: its argument, its result
                 \* and the Script before it
  expPc,         \* position of the expansion: see ExpPcs
  argv_terms,    \* CommandComposition::argv_terms
  cmds,          \* the result of build_all_command_to_run
  tacle_path,    \* TACLeOptsLoader::tacle_path
  tacle_bench_set, \* TACLeOptsLoader::tacle_bench_set
  config_vals,   \* the values of script_config: see ConfigVals
  kernel_dir,    \* the directory <TACLE_PATH>/bench/kernel: number of
                 \* entries (-1: no such directory)
  runs,          \* number of finished expansions of the Script
  first_cmds,    \* the commands of the first expansion
  benchsets,     \* TACLe::benchsets
  query,         \* the argument of the last gen_exec_entry_pair call
  pairs          \* the result of the last gen_exec_entry_pair call

runnerVars == <<cmd, tasks, iter, scopePc, scopeOwner, locked, popped, deque,
                running, st, launched, exit_code, child, created, panic,
                name, stdio>>
scriptVars == <<script_config, loaded_opts, loaders, regCalls, lastReg>>
expandVars == <<expPc, argv_terms, cmds>>
loaderVars == <<tacle_path, tacle_bench_set, config_vals, kernel_dir, runs,
                first_cmds>>
tacleVars == <<benchsets, query, pairs>>
libVars == <<loaderVars, tacleVars>>
vars == <<mainPc, num_cores, runnerVars, scriptVars, expandVars, libVars>>

MainPcs == {"check_path", "from_file", "register", "gen_cmd", "run", "loop",
            "done", "exited", "panicked", "run_panicked", "script"}
ScopePcs == {"idle", "op_lock", "op_pop", "op_spawn", "wait"}
ExpPcs == {"script", "composed", "built", "panicked", "unresolved"}
Statuses == {"Queued", "Claimed", "Starting", "Opened", "Running",
             "Completed", "TimedOut", "FailedToLaunch", "FailedToOpen"}

OptNames == {"OTAWA_APP_PATH", "OTAWA_PROPS", "OTAWA_LOG_LEVEL"}

Workers == 1..num_cores
TaskIds == 1..Len(cmd)

Terminal == {"Completed", "TimedOut", "FailedToLaunch", "FailedToOpen"}
Live == {"Running"}

\* ------------------------------------------------------- Script (script.rs)

\* The loop of register_loader over loading_opts(): stops at the first option
\* that is not a key of the configuration or is already loaded; the options
\* inserted before that stay inserted.
RECURSIVE RegisterScan(_, _, _)
RegisterScan(cfg, loaded, opts) ==
  IF opts = <<>> THEN [ok |-> TRUE, loaded_opts |-> loaded]
  ELSE IF Head(opts) \in cfg
       THEN IF Head(opts) \in loaded
            THEN [ok |-> FALSE, loaded_opts |-> loaded]
            ELSE RegisterScan(cfg, loaded \cup {Head(opts)}, Tail(opts))
       ELSE [ok |-> FALSE, loaded_opts |-> loaded]

\* Script::register_loader: the Script after the call and the call's record.
RegisterLoader(loader) ==
  LET r == RegisterScan(script_config, loaded_opts, loader.opts) IN
  /\ loaded_opts' = r.loaded_opts
  /\ loaders' = IF r.ok THEN Append(loaders, loader) ELSE loaders
  /\ regCalls' = regCalls + 1
  /\ lastReg' = [res |-> IF r.ok THEN "ok" ELSE "err", loader |-> loader,
                 loaders |-> loaders, loaded_opts |-> loaded_opts]

OTAWAAppLoader == [opts |-> <<"OTAWA_APP_PATH">>]
OTAWAPropsLoader == [opts |-> <<"OTAWA_PROPS", "OTAWA_LOG_LEVEL">>]

\* the loaders otawa_tacle_script registers, in order
ScriptLoaders == <<OTAWAAppLoader, OTAWAPropsLoader>>

NoReg == [res |-> "none", loader |-> [opts |-> <<>>], loaders |-> <<>>,
          loaded_opts |-> {}]

\* ------------------------------------------------------------ main (main.rs)

RunnerInit ==
  /\ cmd = <<>>
  /\ tasks = <<>>
  /\ iter = 0
  /\ scopePc = "idle"
  /\ scopeOwner = 0
  /\ locked = FALSE
  /\ popped = 0
  /\ deque = <<>>
  /\ running = <<>>
  /\ st = <<>>
  /\ launched = <<>>
  /\ exit_code = <<>>
  /\ child = <<>>
  /\ created = <<>>
  /\ panic = FALSE
  /\ name = <<>>
  /\ stdio = <<>>

ScriptInit ==
  /\ script_config \in SUBSET OptNames
  /\ loaded_opts = {}
  /\ loaders = <<>>
  /\ regCalls = 0
  /\ lastReg = NoReg

ExpandInit ==
  /\ expPc = "script"
  /\ argv_terms = <<>>
  /\ cmds = <<>>

\* no TACLeOptsLoader; nothing expanded yet
LoaderIdle ==
  /\ tacle_path = <<>>
  /\ tacle_bench_set = "kernel"
  /\ config_vals = [props |-> 0, log |-> TRUE, app |-> TRUE, tacle |-> TRUE]
  /\ kernel_dir = 0
  /\ runs = 0
  /\ first_cmds = <<>>

\* no TACLe description loaded
TacleIdle ==
  /\ benchsets = <<>>
  /\ query = "none"
  /\ pairs = <<>>

Init ==
  /\ mainPc = "check_path"
  /\ num_cores \in 0..MaxCores
  /\ RunnerInit
  /\ ScriptInit
  /\ ExpandInit
  /\ LoaderIdle
  /\ TacleIdle

\* main.rs 91-101: the script path must exist, else exit(-1)
CheckPath ==
  /\ mainPc = "check_path"
  /\ \E exists \in BOOLEAN : mainPc' = IF exists THEN "from_file" ELSE "exited"
  /\ UNCHANGED <<num_cores, runnerVars, scriptVars, expandVars, libVars>>

\* script.rs 40-77: open, read and parse the file, else exit(-1)
FromFile ==
  /\ mainPc = "from_file"
  /\ \E ok \in BOOLEAN : mainPc' = IF ok THEN "register" ELSE "exited"
  /\ UNCHANGED <<num_cores, runnerVars, scriptVars, expandVars, libVars>>

\* variant: the Err of register_loader is dropped instead of panicking
AfterRegisterIgnoringErr(res, n) ==
  IF n = Len(ScriptLoaders) THEN "gen_cmd" ELSE "register"

\* where main goes after one register_loader call of otawa_tacle_script:
\* an Err panics
AfterRegister(res, n) ==
  IF res = "err" THEN "panicked"
  ELSE IF n = Len(ScriptLoaders) THEN "gen_cmd" ELSE "register"

\* main.rs 103: otawa_tacle_script registers its loaders one after the other
MainRegister ==
  /\ mainPc = "register"
  /\ RegisterLoader(ScriptLoaders[regCalls + 1])
  /\ mainPc' = AfterRegister(lastReg'.res, regCalls')
  /\ UNCHANGED <<num_cores, runnerVars, script_config, expandVars, libVars>>

\* the Task::name fields of a list of m tasks: all distinct, or, for a list
\* of two tasks, also both the same
NameLists(m) ==
  {[t \in 1..m |-> t]} \cup (IF m = 2 THEN {[t \in 1..m |-> 1]} ELSE {})

\* main.rs 104: script.gen_cmd().unwrap(): an Err panics, an Ok is the
\* complete task list (cmd holds the position of each task in it)
GenCmd ==
  /\ mainPc = "gen_cmd"
  /\ \/ /\ mainPc' = "panicked"
        /\ cmd' = cmd
        /\ name' = name
     \/ \E m \in 0..MaxTasks :
          /\ cmd' = [t \in 1..m |-> t]
          /\ name' \in NameLists(m)
          /\ mainPc' = "run"
  /\ UNCHANGED <<num_cores, tasks, iter, scopePc, scopeOwner, locked, popped,
                 deque, running, st, launched, exit_code, child, created,
                 panic, scriptVars, expandVars,
                 stdio, libVars>>

\* main.rs 46-47: the path of the output file of a task named n
OutFile(n) == <<n, ".out">>

\* the standard streams of a task without a process
NoStdio == [out |-> <<>>, err |-> <<>>]

\* main.rs 31-36: build the pool, move a clone of the task list into the mutex.
\* With num_cores = 0 rayon sizes the pool itself, but the loop of line 37
\* never uses it, so no pool thread is modelled then.
RunStart ==
  /\ mainPc = "run"
  /\ mainPc' = "loop"
  /\ tasks' = cmd
  /\ running' = [w \in Workers |-> 0]
  /\ st' = [t \in TaskIds |-> "Queued"]
  /\ launched' = [t \in TaskIds |-> 0]
  /\ exit_code' = [t \in TaskIds |-> -1]
  /\ child' = [t \in TaskIds |-> "none"]
  /\ created' = [t \in TaskIds |-> FALSE]
  /\ stdio' = [t \in TaskIds |-> NoStdio]
  /\ UNCHANGED <<num_cores, cmd, iter, scopePc, scopeOwner, locked, popped,
                 deque, panic, scriptVars, expandVars,
                 name, libVars>>

\* main.rs 37-39: one more iteration of the for loop enters pool.scope on some
\* pool thread
ScopeEnter ==
  /\ mainPc = "loop"
  /\ scopePc = "idle"
  /\ iter < num_cores
  /\ \E w \in Workers :
       /\ running[w] = 0
       /\ scopeOwner' = w
  /\ scopePc' = "op_lock"
  /\ UNCHANGED <<mainPc, num_cores, cmd, tasks, iter, locked, popped, deque,
                 running, st, launched, exit_code, child, created, panic,
                 scriptVars, expandVars,
                 name, stdio, libVars>>

\* main.rs 37, 74: the for loop is over, run_tasks_concurrently returns
RunReturn ==
  /\ mainPc = "loop"
  /\ scopePc = "idle"
  /\ iter >= num_cores
  /\ mainPc' = "done"
  /\ UNCHANGED <<num_cores, runnerVars, scriptVars, expandVars, libVars>>

\* main.rs 41: tasks.lock().unwrap()
ScopeLock ==
  /\ mainPc = "loop"
  /\ scopePc = "op_lock"
  /\ ~locked
  /\ locked' = TRUE
  /\ scopePc' = "op_pop"
  /\ UNCHANGED <<mainPc, num_cores, cmd, tasks, iter, scopeOwner, popped,
                 deque, running, st, launched, exit_code, child, created,
                 panic, scriptVars, expandVars,
                 name, stdio, libVars>>

\* variant: a pop that also drops the element below the last one
VecPopRestLosing(q) == SubSeq(q, 1, Len(q) - 2)

\* Vec::pop: what is left in the vector
VecPopRest(q) == SubSeq(q, 1, Len(q) - 1)

\* variant: the guard lives on after the block of the pop
GuardAfterPopKept == TRUE

\* main.rs 43: tasks_guard goes out of scope at the end of the block, which
\* unlocks the mutex: the mutex is not held after the block
GuardAfterPop == FALSE

\* main.rs 42-43: tasks_guard.pop(), then the guard is dropped; None ends the
\* closure
ScopePop ==
  /\ mainPc = "loop"
  /\ scopePc = "op_pop"
  /\ locked' = GuardAfterPop
  /\ IF tasks = <<>>
     THEN /\ scopePc' = "wait"
          /\ UNCHANGED <<tasks, popped, st>>
     ELSE /\ popped' = tasks[Len(tasks)]
          /\ tasks' = VecPopRest(tasks)
          /\ st' = [st EXCEPT ![tasks[Len(tasks)]] = "Claimed"]
          /\ scopePc' = "op_spawn"
  /\ UNCHANGED <<mainPc, num_cores, cmd, iter, scopeOwner, deque, running,
                 launched, exit_code, child, created, panic, scriptVars,
                 expandVars,
                 name, stdio, libVars>>

\* main.rs 44: s.spawn pushes the job on the closure thread's deque
ScopeSpawn ==
  /\ mainPc = "loop"
  /\ scopePc = "op_spawn"
  /\ deque' = Append(deque, popped)
  /\ popped' = 0
  /\ scopePc' = "op_lock"
  /\ UNCHANGED <<mainPc, num_cores, cmd, tasks, iter, scopeOwner, locked,
                 running, st, launched, exit_code, child, created, panic,
                 scriptVars, expandVars,
                 name, stdio, libVars>>

\* variant: a thread picks up a job while it still runs another one
CanTakeBusy(w) == ~(w = scopeOwner /\ scopePc # "wait")

\* a pool thread may pick up a job: it runs no job, and it is not the thread
\* that is still inside the scope closure
CanTake(w) == running[w] = 0 /\ ~(w = scopeOwner /\ scopePc # "wait")

\* variant: the closure's thread also takes the oldest job
JobIndexFifo(w, dq) == 1

\* the job a pool thread takes from the deque dq of the closure's thread:
\* the closure's thread pops the newest, a thief steals the oldest
JobIndex(w, dq) == IF w = scopeOwner THEN Len(dq) ELSE 1

\* main.rs 44-45: a pool thread starts a job: the closure's thread takes the
\* newest job of its own deque, another thread steals the oldest
TakeJob(w) ==
  /\ mainPc = "loop"
  /\ deque # <<>>
  /\ CanTake(w)
  /\ LET i == JobIndex(w, deque)
         t == deque[i] IN
       /\ deque' = SubSeq(deque, 1, i - 1) \o SubSeq(deque, i + 1, Len(deque))
       /\ running' = [running EXCEPT ![w] = t]
       /\ st' = [st EXCEPT ![t] = "Starting"]
       /\ launched' = [launched EXCEPT ![t] = @ + 1]
  /\ UNCHANGED <<mainPc, num_cores, cmd, tasks, iter, scopePc, scopeOwner,
                 locked, popped, exit_code, child, created, panic, scriptVars,
                 expandVars,
                 name, stdio, libVars>>

\* main.rs 46-48: fs::File::create(fout).unwrap(): an Err panics the job
CreateFile(w) ==
  /\ mainPc = "loop"
  /\ running[w] # 0
  /\ st[running[w]] = "Starting"
  /\ \/ /\ created' = [created EXCEPT ![running[w]] = TRUE]
        /\ st' = [st EXCEPT ![running[w]] = "Opened"]
        /\ UNCHANGED <<running, panic>>
     \/ /\ st' = [st EXCEPT ![running[w]] = "FailedToOpen"]
        /\ running' = [running EXCEPT ![w] = 0]
        /\ panic' = TRUE
        /\ UNCHANGED created
  /\ UNCHANGED <<mainPc, num_cores, cmd, tasks, iter, scopePc, scopeOwner,
                 locked, popped, deque, launched, exit_code, child,
                 scriptVars, expandVars,
                 name, stdio, libVars>>

\* variant: only stdout is redirected, stderr is inherited
ChildStdioOutOnly(f) == [out |-> f, err |-> <<>>]

\* main.rs 51-52: .stderr(fout.try_clone().unwrap()).stdout(fout)
ChildStdio(f) == [out |-> f, err |-> f]

\* main.rs 49-54: Command::spawn().expect(..): an Err (of try_clone or of
\* spawn) panics the job; the spawned process is one that exits by itself or
\* one that never does
SpawnChild(w) ==
  /\ mainPc = "loop"
  /\ running[w] # 0
  /\ st[running[w]] = "Opened"
  /\ \/ /\ \E c \in {"exits", "hangs"} :
             child' = [child EXCEPT ![running[w]] = c]
        /\ st' = [st EXCEPT ![running[w]] = "Running"]
        /\ stdio' = [stdio EXCEPT ![running[w]] =
                       ChildStdio(OutFile(name[running[w]]))]
        /\ UNCHANGED <<running, panic>>
     \/ /\ st' = [st EXCEPT ![running[w]] = "FailedToLaunch"]
        /\ running' = [running EXCEPT ![w] = 0]
        /\ panic' = TRUE
        /\ UNCHANGED <<child, stdio>>
  /\ UNCHANGED <<mainPc, num_cores, cmd, tasks, iter, scopePc, scopeOwner,
                 locked, popped, deque, launched, exit_code, created,
                 scriptVars, expandVars,
                 name, libVars>>

\* variant: a task that exits non-zero is queued again
StatusAfterExitRetry(code) == IF code = 0 THEN "Completed" ELSE "Queued"

\* the status of a task whose wait_timeout returned Some(status)
StatusAfterExit(code) == "Completed"

\* main.rs 59-62: the child exited within the timeout; the job returns
ChildExit(w) ==
  /\ mainPc = "loop"
  /\ running[w] # 0
  /\ st[running[w]] = "Running"
  /\ child[running[w]] = "exits"
  /\ \E code \in {0, 1} :
       /\ exit_code' = [exit_code EXCEPT ![running[w]] = code]
       /\ st' = [st EXCEPT ![running[w]] = StatusAfterExit(code)]
  /\ child' = [child EXCEPT ![running[w]] = "none"]
  /\ running' = [running EXCEPT ![w] = 0]
  /\ UNCHANGED <<mainPc, num_cores, cmd, tasks, iter, scopePc, scopeOwner,
                 locked, popped, deque, launched, created, panic,
                 scriptVars, expandVars,
                 name, stdio, libVars>>

\* variant: a plain wait(), which no timeout interrupts
TimeoutElapsesNever(c) == FALSE

\* wait_timeout(two_hours) may return None for a child of kind c: the timeout
\* is finite, so it may elapse before any child exits
TimeoutElapses(c) == c \in {"exits", "hangs"}

\* main.rs 58-59, 63-67: the timeout elapsed before the child exited:
\* child.kill().unwrap(); child.wait().unwrap(); the job ends
TimeoutKill(w) ==
  /\ mainPc = "loop"
  /\ running[w] # 0
  /\ st[running[w]] = "Running"
  /\ TimeoutElapses(child[running[w]])
  /\ st' = [st EXCEPT ![running[w]] = "TimedOut"]
  /\ child' = [child EXCEPT ![running[w]] = "none"]
  /\ running' = [running EXCEPT ![w] = 0]
  /\ UNCHANGED <<mainPc, num_cores, cmd, tasks, iter, scopePc, scopeOwner,
                 locked, popped, deque, launched, exit_code, created, panic,
                 scriptVars, expandVars,
                 name, stdio, libVars>>

\* variant: the scope returns as soon as one job has panicked
ScopeLatchSetEarly(dq, rn) == panic \/ (dq = <<>> /\ \A w \in DOMAIN rn : rn[w] = 0)

\* the scope's latch: the closure has returned and every spawned job has ended
ScopeLatchSet(dq, rn) == dq = <<>> /\ \A w \in DOMAIN rn : rn[w] = 0

\* main.rs 39, 72: pool.scope returns once all its jobs have ended, and
\* resumes a stored panic
ScopeComplete ==
  /\ mainPc = "loop"
  /\ scopePc = "wait"
  /\ ScopeLatchSet(deque, running)
  /\ scopePc' = "idle"
  /\ scopeOwner' = 0
  /\ IF panic
     THEN /\ mainPc' = "run_panicked"
          /\ iter' = iter
     ELSE /\ mainPc' = mainPc
          /\ iter' = iter + 1
  /\ UNCHANGED <<num_cores, cmd, tasks, locked, popped, deque, running, st,
                 launched, exit_code, child, created, panic, scriptVars,
                 expandVars,
                 name, stdio, libVars>>

Next ==
  \/ CheckPath
  \/ FromFile
  \/ MainRegister
  \/ GenCmd
  \/ RunStart
  \/ ScopeEnter
  \/ RunReturn
  \/ ScopeLock
  \/ ScopePop
  \/ ScopeSpawn
  \/ \E w \in Workers : TakeJob(w)
  \/ \E w \in Workers : CreateFile(w)
  \/ \E w \in Workers : SpawnChild(w)
  \/ \E w \in Workers : ChildExit(w)
  \/ \E w \in Workers : TimeoutKill(w)
  \/ ScopeComplete

Spec == Init /\ [][Next]_vars

\* Threads that can run do run, and the timeout is finite.
FairSpec == Spec /\ WF_vars(Next)

\* ------------------------------------------- a Script object (script.rs)

Range(q) == {q[i] : i \in DOMAIN q}

\* what loading_opts() of a loader may return: a list of distinct option names
LoaderOptSeqs ==
  {q \in UNION {[1..n -> OptNames] : n \in 0..MaxOpts} :
     \A i \in DOMAIN q : \A j \in DOMAIN q : i # j => q[i] # q[j]}

Loaders == [opts : LoaderOptSeqs]

IdleMain ==
  /\ mainPc = "script"
  /\ num_cores = 0
  /\ RunnerInit

\* Script::from_file on any configuration: no loader, no loaded option
ScriptSpecInit ==
  /\ IdleMain
  /\ ScriptInit
  /\ ExpandInit
  /\ LoaderIdle
  /\ TacleIdle

\* script.rs 23-37: one register_loader call, with any loader
Register ==
  /\ regCalls < MaxRegs
  /\ \E l \in Loaders : RegisterLoader(l)
  /\ UNCHANGED <<mainPc, num_cores, runnerVars, script_config, expandVars, libVars>>

ScriptNext == Register

ScriptSpec == ScriptSpecInit /\ [][ScriptNext]_vars

\* --------------------------------------- CommandComposition (script.rs)

\* the j-th token of the i-th alternative of the term of the k-th loader
Tok(k, i, j) == 100 * k + 10 * i + j

\* a term of n alternatives of w tokens each, as the k-th loader returns it
Term(k, n, w) == [i \in 1..n |-> [j \in 1..w |-> Tok(k, i, j)]]

\* what loads_opts of the k-th loader may return in Ok
TermsOf(k) == {Term(k, n, w) : n \in 0..MaxTuples, w \in 0..MaxWidth}

\* script.rs 268: the terms with more than one alternative
OnlyMultiple(terms) == {k \in DOMAIN terms : Len(terms[k]) > 1}

\* script.rs 283-285, 289-293: every command so far gets the tokens of argv
ExtendAll(res, argv) ==
  [i \in DOMAIN res |-> [cmd |-> res[i].cmd, args |-> res[i].args \o argv]]

\* script.rs 287-295: for each alternative in turn, res is replaced by the
\* commands of res extended with that alternative
RECURSIVE FoldAlternatives(_, _)
FoldAlternatives(res, argvs) ==
  IF argvs = <<>> THEN res
  ELSE FoldAlternatives(ExtendAll(res, Head(argvs)), Tail(argvs))

\* script.rs 281-297: the loop over argv_terms[1..]
RECURSIVE FoldTerms(_, _)
FoldTerms(res, terms) ==
  IF terms = <<>> THEN res
  ELSE FoldTerms(IF Len(Head(terms)) = 1
                 THEN ExtendAll(res, Head(terms)[1])
                 ELSE FoldAlternatives(res, Head(terms)),
                 Tail(terms))

\* script.rs 277: argv_terms[0][0][0] can be indexed
HasAppName(terms) ==
  /\ Len(terms) >= 1
  /\ Len(terms[1]) >= 1
  /\ Len(terms[1][1]) >= 1

\* CommandComposition::build_all_command_to_run
BuildAllCommandToRun(terms) ==
  FoldTerms(<<[cmd |-> terms[1][1][1], args |-> <<>>]>>, Tail(terms))

\* a Script on which n loaders are registered; gen_terms reads neither the
\* options they declared nor loaded_opts
ExpandSpecInit ==
  /\ IdleMain
  /\ script_config = OptNames
  /\ loaded_opts = {}
  /\ \E n \in 0..MaxRegs : loaders = [k \in 1..n |-> [opts |-> <<>>]]
  /\ regCalls = Len(loaders)
  /\ lastReg = NoReg
  /\ ExpandInit
  /\ LoaderIdle
  /\ TacleIdle

\* script.rs 259-273 with gen_terms 79-90: every loader returns its term or
\* an Err, which the unwrap turns into a panic; more than one term with
\* several alternatives panics
FromScript ==
  /\ expPc = "script"
  /\ \/ /\ loaders # <<>>
        /\ expPc' = "panicked"
        /\ UNCHANGED argv_terms
     \/ \E terms \in [DOMAIN loaders -> UNION {TermsOf(k) : k \in DOMAIN loaders}] :
          /\ \A k \in DOMAIN loaders : terms[k] \in TermsOf(k)
          /\ IF Cardinality(OnlyMultiple(terms)) > 1
             THEN expPc' = "panicked" /\ UNCHANGED argv_terms
             ELSE expPc' = "composed" /\ argv_terms' = terms
  /\ UNCHANGED <<mainPc, num_cores, runnerVars, scriptVars, cmds, libVars>>

\* script.rs 275-299: build_all_command_to_run; an index out of range panics
BuildAll ==
  /\ expPc = "composed"
  /\ IF HasAppName(argv_terms)
     THEN /\ cmds' = BuildAllCommandToRun(argv_terms)
          /\ expPc' = "built"
     ELSE /\ expPc' = "panicked"
          /\ UNCHANGED cmds
  /\ UNCHANGED <<mainPc, num_cores, runnerVars, scriptVars, argv_terms, libVars>>

ExpandNext == FromScript \/ BuildAll

ExpandSpec == ExpandSpecInit /\ [][ExpandNext]_vars

\* ------------------------------------ the loaders of script.rs (script.rs)

AddPropFlag == 1
LogFlag == 2

TACLeOptsLoader == [opts |-> <<"TACLE_PATH", "TACLE_BENCH_SET">>]

ConcreteLoaders == {OTAWAAppLoader, OTAWAPropsLoader, TACLeOptsLoader}

AllOptNames == OptNames \cup {"TACLE_PATH", "TACLE_BENCH_SET"}

\* the values of the configuration, as far as the loaders look at them:
\* props: OTAWA_PROPS is an array of that many strings (-1: it is not);
\* log, app, tacle: OTAWA_LOG_LEVEL, OTAWA_APP_PATH, TACLE_PATH are strings
ConfigVals ==
  [props : -1..MaxWidth, log : BOOLEAN, app : BOOLEAN, tacle : BOOLEAN]

\* script.rs 170-187: OTAWAAppLoader::loads_opts
LoadsOptsApp(cv) ==
  IF cv.app THEN [res |-> "ok", term |-> <<<<Tok(1, 1, 1)>>>>]
  ELSE [res |-> "err", term |-> <<>>]

\* script.rs 130-137: --add-prop <prop> for each of the n props
PropsArgs(n) ==
  [j \in 1..(2 * n) |-> IF j % 2 = 1 THEN AddPropFlag ELSE Tok(2, 1, j \div 2)]

\* script.rs 115-155: OTAWAPropsLoader::loads_opts: the props and the log
\* level are returned as two alternatives of one term
LoadsOptsProps(cv) ==
  IF cv.props < 0 \/ ~cv.log THEN [res |-> "err", term |-> <<>>]
  ELSE [res |-> "ok", term |-> <<PropsArgs(cv.props), <<LogFlag, Tok(2, 2, 1)>>>>]

\* variant: tacle_path is only set when it is still empty
TaclePathKept(old) == IF old = <<>> THEN <<"TACLE_PATH">> ELSE old

\* script.rs 233-234: self.tacle_path = the value of TACLE_PATH
TaclePathAtLoad(old) == <<"TACLE_PATH">>

\* script.rs 198: self.tacle_path.push_str("/bench/kernel")
PushKernel(path) == Append(path, "/bench/kernel")

\* script.rs 199-200: kernel_path.is_dir()
IsDir(path) == kernel_dir >= 0 /\ path = <<"TACLE_PATH", "/bench/kernel">>

\* script.rs 196-220, 243-250: one (app_path, entry_fun_name) alternative
\* per entry of the directory, in the order read_dir gives them
KernelBenchsTerm == [i \in 1..kernel_dir |-> <<Tok(3, i, 1), Tok(3, i, 2)>>]

\* script.rs 228-251: TACLeOptsLoader::loads_opts on a loader whose
\* tacle_path is path: result, term and the new tacle_path; the asserts of
\* kernel_benchs_pairs panic
LoadsOptsTacle(cv, path) ==
  IF ~cv.tacle THEN [res |-> "err", term |-> <<>>, tacle_path |-> path]
  ELSE LET p == PushKernel(TaclePathAtLoad(path)) IN
       IF tacle_bench_set # "kernel" THEN
         [res |-> "panic", term |-> <<>>, tacle_path |-> TaclePathAtLoad(path)]
       ELSE IF ~IsDir(p) THEN [res |-> "panic", term |-> <<>>, tacle_path |-> p]
       ELSE [res |-> "ok", term |-> KernelBenchsTerm, tacle_path |-> p]

\* loads_opts of a loader, by its type
LoadsOpts(l, cv, path) ==
  IF l = OTAWAAppLoader
  THEN [res |-> LoadsOptsApp(cv).res, term |-> LoadsOptsApp(cv).term,
        tacle_path |-> path]
  ELSE IF l = OTAWAPropsLoader
  THEN [res |-> LoadsOptsProps(cv).res, term |-> LoadsOptsProps(cv).term,
        tacle_path |-> path]
  ELSE LoadsOptsTacle(cv, path)

\* script.rs 79-90: Script::gen_terms on the loaders ls, terms being the
\* terms pushed so far: stops at the first loader that does not return Ok
RECURSIVE GenTerms(_, _, _, _)
GenTerms(ls, cv, path, terms) ==
  IF ls = <<>> THEN [res |-> "ok", terms |-> terms, tacle_path |-> path]
  ELSE LET r == LoadsOpts(Head(ls), cv, path) IN
       IF r.res = "ok"
       THEN GenTerms(Tail(ls), cv, r.tacle_path, Append(terms, r.term))
       ELSE [res |-> r.res, terms |-> terms, tacle_path |-> r.tacle_path]

\* a fresh Script whose configuration has all the keys, any values, any
\* kernel directory, and a TACLeOptsLoader for any bench set
LoaderSpecInit ==
  /\ IdleMain
  /\ script_config = AllOptNames
  /\ loaded_opts = {}
  /\ loaders = <<>>
  /\ regCalls = 0
  /\ lastReg = NoReg
  /\ ExpandInit
  /\ tacle_path = <<>>
  /\ tacle_bench_set \in {"kernel", "other"}
  /\ config_vals \in ConfigVals
  /\ kernel_dir \in -1..MaxTuples
  /\ runs = 0
  /\ first_cmds = <<>>
  /\ TacleIdle

\* script.rs 23-37: register_loader with one of the loaders of script.rs
RegisterConcrete ==
  /\ expPc = "script"
  /\ runs = 0
  /\ regCalls < MaxRegs
  /\ \E l \in ConcreteLoaders : RegisterLoader(l)
  /\ UNCHANGED <<mainPc, num_cores, runnerVars, script_config, expandVars,
                 libVars>>

\* script.rs 259-273: from_script: gen_terms().unwrap(), then the check that
\* at most one term has several alternatives
LoadTerms ==
  /\ expPc = "script"
  /\ LET r == GenTerms(loaders, config_vals, tacle_path, <<>>) IN
       /\ tacle_path' = r.tacle_path
       /\ IF r.res = "err"
          THEN expPc' = "unresolved" /\ UNCHANGED argv_terms
          ELSE IF r.res = "panic" \/ Cardinality(OnlyMultiple(r.terms)) > 1
          THEN expPc' = "panicked" /\ UNCHANGED argv_terms
          ELSE expPc' = "composed" /\ argv_terms' = r.terms
  /\ UNCHANGED <<mainPc, num_cores, runnerVars, scriptVars, cmds,
                 tacle_bench_set, config_vals, kernel_dir, runs, first_cmds,
                 tacleVars>>

\* the expansion is run once more on the same Script
Again ==
  /\ expPc = "built"
  /\ runs = 0
  /\ runs' = 1
  /\ first_cmds' = cmds
  /\ expPc' = "script"
  /\ argv_terms' = <<>>
  /\ cmds' = <<>>
  /\ UNCHANGED <<mainPc, num_cores, runnerVars, scriptVars, tacle_path,
                 tacle_bench_set, config_vals, kernel_dir, tacleVars>>

LoaderNext == RegisterConcrete \/ LoadTerms \/ BuildAll \/ Again

LoaderSpec == LoaderSpecInit /\ [][LoaderNext]_vars

\* ------------------------------------------------------ TACLe (tacle.rs)

BenchSetNames == {"kernel", "sequential", "app"}

\* tacle.rs 53-85: a BenchSet of n benchs as from_script builds it; the
\* bench paths and entry points are numbered in the order of the array
BenchSet(nm, n) == [name |-> nm, benchs |-> [i \in 1..n |-> i]]

\* tacle.rs 51-86: the bench sets of a description: one per key of the
\* table, so the names differ
BenchSetLists ==
  UNION {{q \in [1..m -> {BenchSet(nm, n) : nm \in BenchSetNames,
                                              n \in 0..MaxTuples}] :
            \A i \in 1..m : \A j \in 1..m : i # j => q[i].name # q[j].name} :
         m \in 0..MaxSets}

\* tacle.rs 100-109: the (executable path, entry point) pairs of a bench set,
\* the path being root_path joined with the set's and the bench's path
PairsOf(bs) ==
  [i \in DOMAIN bs.benchs |->
     [exec |-> <<"root_path", bs.name, bs.benchs[i]>>, entry |-> bs.benchs[i]]]

\* tacle.rs 96-114: gen_exec_entry_pair: the return of line 111 stands in
\* the body of the loop over the bench sets, after the if
GenExecEntryPair(sets, benchset_name) ==
  IF sets = <<>> THEN <<>>
  ELSE IF Head(sets).name = benchset_name THEN PairsOf(Head(sets)) ELSE <<>>

\* tacle.rs 88-92: a TACLe description as from_script returns it
TacleSpecInit ==
  /\ IdleMain
  /\ script_config = OptNames
  /\ loaded_opts = {}
  /\ loaders = <<>>
  /\ regCalls = 0
  /\ lastReg = NoReg
  /\ ExpandInit
  /\ LoaderIdle
  /\ benchsets \in BenchSetLists
  /\ query = "none"
  /\ pairs = <<>>

\* a call of gen_exec_entry_pair with the name of a bench set or another name
GenExecEntry ==
  /\ \E n \in BenchSetNames \cup {"absent"} :
       /\ query' = n
       /\ pairs' = GenExecEntryPair(benchsets, n)
  /\ UNCHANGED <<mainPc, num_cores, runnerVars, scriptVars, expandVars,
                 loaderVars, benchsets>>

TacleNext == GenExecEntry

TacleSpec == TacleSpecInit /\ [][TacleNext]_vars

\* ------------------------------------------------------------------ claims

RunFinished == mainPc \in {"done", "run_panicked"}

\* the task state machine of the design: Queued, Running and the outcomes
Abs(s) ==
  IF s \in {"Queued", "Claimed"} THEN "Queued"
  ELSE IF s \in {"Starting", "Opened", "Running"} THEN "Running"
  ELSE IF s = "FailedToOpen" THEN "FailedToLaunch"
  ELSE s

LiveTasks == {t \in DOMAIN st : st[t] \in Live}

\* C1: with N >= 1 workers and M >= N tasks, when run_tasks_concurrently has
\* finished every task has been launched exactly once; no task is ever
\* launched twice.
C1_ExactlyOnce ==
  /\ \A t \in DOMAIN launched : launched[t] <= 1
  /\ (RunFinished /\ num_cores >= 1 /\ Len(cmd) >= num_cores)
       => \A t \in TaskIds : launched[t] = 1

C1_Witness ==
  /\ mainPc = "done"
  /\ num_cores = 2
  /\ Len(cmd) = 3
  /\ \A t \in TaskIds : launched[t] = 1

\* C2: for every worker count, 0 included, at least one worker is used and
\* every task of a non-empty task list has been launched when the run returns.
C2_ClampedToOne ==
  (mainPc = "done" /\ Len(cmd) > 0)
    => /\ DOMAIN running # {}
       /\ \A t \in TaskIds : launched[t] >= 1

\* C3: once the process of a task could not be spawned, every task of the
\* list still gets launched once and reaches a terminal state.
C3_SiblingsSurvive ==
  (\E t \in DOMAIN st : st[t] = "FailedToLaunch")
    ~> (\A u \in DOMAIN st : launched[u] = 1 /\ st[u] \in Terminal)

\* one worker: a sibling is running after the spawn failure of another task
C3_Witness ==
  /\ num_cores = 1
  /\ \E t \in DOMAIN st : \E u \in DOMAIN st :
       st[t] = "FailedToLaunch" /\ st[u] = "Running"

\* C4: every launched task reaches a terminal state with its worker released;
\* a process that never exits can only be left by the timeout, which ends the
\* task in TimedOut with the process killed and reaped.
C4_TimeoutTerminates ==
  /\ \A t \in 1..MaxTasks :
       (t \in DOMAIN st /\ launched[t] >= 1)
         ~> (/\ t \in DOMAIN st
             /\ st[t] \in Terminal
             /\ child[t] = "none"
             /\ \A w \in DOMAIN running : running[w] # t)
  /\ [][\A t \in DOMAIN st :
         (t \in DOMAIN st' /\ child[t] = "hangs" /\ st'[t] # st[t])
           => (st'[t] = "TimedOut" /\ child'[t] = "none")]_vars

C4_Witness ==
  \E t \in DOMAIN st :
    /\ st[t] = "TimedOut"
    /\ child[t] = "none"
    /\ \A w \in DOMAIN running : running[w] # t
    /\ mainPc = "done"

\* one step of a task in the design's state machine
Allowed(a, b) ==
  \/ Abs(a) = Abs(b)
  \/ Abs(a) = "Queued" /\ Abs(b) = "Running"
  \/ Abs(a) = "Running" /\ Abs(b) \in {"Completed", "TimedOut", "FailedToLaunch"}

\* C5: a task only moves Queued -> Running -> {Completed, TimedOut,
\* FailedToLaunch}; it never returns to Queued, a terminal state and its exit
\* code never change, and a task is launched when it leaves Queued and never
\* again.
C5_TaskTransitions ==
  [][\A t \in DOMAIN st :
       t \in DOMAIN st' =>
         /\ Allowed(st[t], st'[t])
         /\ st[t] \in Terminal => (st'[t] = st[t] /\ exit_code'[t] = exit_code[t])
         /\ launched'[t] = IF Abs(st[t]) = "Queued" /\ Abs(st'[t]) = "Running"
                           THEN launched[t] + 1 ELSE launched[t]]_vars

\* the run is over with a non-zero exit, a timeout and a spawn failure
C5_Witness ==
  /\ RunFinished
  /\ \E t \in DOMAIN st : st[t] = "Completed" /\ exit_code[t] = 1 /\ launched[t] = 1
  /\ \E t \in DOMAIN st : st[t] = "TimedOut" /\ launched[t] = 1
  /\ \E t \in DOMAIN st : st[t] = "FailedToLaunch" /\ launched[t] = 1

\* C6: at most num_cores tasks have a live child process at the same time, and
\* the pool keeps its num_cores threads during the run.
C6_AtMostNRunning ==
  /\ Cardinality(LiveTasks) <= num_cores
  /\ mainPc \in {"loop", "done", "run_panicked"} => DOMAIN running = 1..num_cores

C6_Witness ==
  /\ num_cores = 2
  /\ Cardinality(LiveTasks) = 2
  /\ deque # <<>>

\* C7: once the task list was generated the run never fails: no failure of a
\* task makes run_tasks_concurrently panic.
C7_RunNeverFails == mainPc # "run_panicked"

IsPrefix(a, b) == Len(a) <= Len(b) /\ a = SubSeq(b, 1, Len(a))

\* C8: nothing is launched before the task list is complete; a failed
\* registration or expansion halts the run with no task launched; once the
\* workers run, the task list is fixed and the queue only shrinks.
C8_ListBeforeLaunch ==
  /\ []((regCalls > Len(loaders) \/ mainPc \in {"panicked", "exited"})
          => \A t \in DOMAIN launched : launched[t] = 0)
  /\ []((\E t \in DOMAIN launched : launched[t] > 0)
          => mainPc \in {"loop", "done", "run_panicked"})
  /\ [][mainPc = "loop" => (cmd' = cmd /\ IsPrefix(tasks', tasks))]_vars

C8_Witness ==
  /\ mainPc = "panicked"
  /\ lastReg.res = "err"
  /\ loaders # <<>>
  /\ launched = <<>>

\* the tokens of a sequence
Toks(q) == Range(q)

\* C9: a term of N >= 2 tuples among single-alternative terms yields exactly
\* N commands, the i-th holding the values of the i-th tuple and no value of
\* another tuple.
C9_OneTaskPerTuple ==
  (expPc = "built" /\ OnlyMultiple(argv_terms) # {})
    => \A k \in OnlyMultiple(argv_terms) :
         (k > 1 /\ \A i \in DOMAIN argv_terms[k] : argv_terms[k][i] # <<>>)
           => /\ Len(cmds) = Len(argv_terms[k])
              /\ \A i \in DOMAIN cmds : \A j \in DOMAIN argv_terms[k] :
                   IF i = j
                   THEN Toks(argv_terms[k][j]) \subseteq Toks(cmds[i].args)
                   ELSE Toks(argv_terms[k][j]) \cap Toks(cmds[i].args) = {}

\* the options declared by the loaders of a list
DeclaredBy(ls) == UNION {Range(ls[i].opts) : i \in DOMAIN ls}

PairwiseDisjoint(ls) ==
  \A i \in DOMAIN ls : \A j \in DOMAIN ls :
    i # j => Range(ls[i].opts) \cap Range(ls[j].opts) = {}

\* C10: a register_loader call succeeds exactly when every option of the
\* loader is a key of the configuration and no loader registered before
\* declares it; a failed call does not add the loader; the registered loaders
\* declare pairwise disjoint options.
C10_RegisterExactly ==
  /\ PairwiseDisjoint(loaders)
  /\ lastReg.res # "none" =>
       /\ lastReg.res = "ok" <=>
            \A o \in Range(lastReg.loader.opts) :
              o \in script_config /\ o \notin DeclaredBy(lastReg.loaders)
       /\ loaders = IF lastReg.res = "ok"
                    THEN Append(lastReg.loaders, lastReg.loader)
                    ELSE lastReg.loaders

\* C11: a second expansion of the same Script on the same configuration ends
\* like the first one and yields the same commands in the same order.
C11_Idempotent ==
  runs = 1 =>
    /\ expPc \notin {"panicked", "unresolved"}
    /\ expPc = "built" => cmds = first_cmds

C11_Witness ==
  /\ runs = 1
  /\ expPc = "built"
  /\ \E k \in DOMAIN loaders : loaders[k] = TACLeOptsLoader
  /\ kernel_dir >= 2
  /\ cmds = first_cmds
  /\ cmds # <<>>

\* every loads_opts of the registered loaders returns Ok
AllResolve == GenTerms(loaders, config_vals, tacle_path, <<>>).res = "ok"

\* C12: when every option of the configuration is declared by a registered
\* loader and every loader resolves, the expansion ends with a non-empty
\* list of commands, each with its executable and the tokens of every term.
C12_NonEmptyComplete ==
  (/\ expPc \in {"built", "panicked", "unresolved"}
   /\ DeclaredBy(loaders) = script_config
   /\ AllResolve)
    => /\ expPc = "built"
       /\ cmds # <<>>

\* C13: with one term of several tuples, the command of an earlier tuple
\* stands before the command of a later tuple in the list.
C13_TupleOrder ==
  (expPc = "built" /\ OnlyMultiple(argv_terms) # {})
    => \A k \in OnlyMultiple(argv_terms) :
         (k > 1 /\ \A i \in DOMAIN argv_terms[k] : argv_terms[k][i] # <<>>)
           => \A i \in DOMAIN argv_terms[k] : \A j \in DOMAIN argv_terms[k] :
                i < j => \E p \in DOMAIN cmds : \E q \in DOMAIN cmds :
                           /\ p < q
                           /\ argv_terms[k][i][1] \in Toks(cmds[p].args)
                           /\ argv_terms[k][j][1] \in Toks(cmds[q].args)

\* the tokens of single-alternative terms, one term after the other
RECURSIVE ConcatTerms(_)
ConcatTerms(terms) ==
  IF terms = <<>> THEN <<>> ELSE Head(terms)[1] \o ConcatTerms(Tail(terms))

\* C17: when every term has one alternative, the one command is the
\* concatenation of the terms in registration order: executable first, then
\* every other token as an argument.
C17_Concatenation ==
  (expPc = "built" /\ \A k \in DOMAIN argv_terms : Len(argv_terms[k]) = 1)
    => /\ Len(cmds) = 1
       /\ <<cmds[1].cmd>> \o cmds[1].args = ConcatTerms(argv_terms)

\* the loaders whose options are all scalar: they add the same arguments to
\* every command
ScalarOnly(l) == l \in {OTAWAAppLoader, OTAWAPropsLoader}

\* the registered loaders that enumerate tuples and returned several
MultiValued ==
  {k \in DOMAIN loaders :
     /\ ~ScalarOnly(loaders[k])
     /\ Len(LoadsOpts(loaders[k], config_vals, tacle_path).term) > 1}

\* C18: once every loader has resolved, from_script aborts exactly when two
\* or more multi-valued loaders returned several alternatives; a loader of
\* scalar options does not count.
C18_OnlyMultiValuedCount ==
  (loaders # <<>> /\ AllResolve /\ expPc \in {"composed", "built", "panicked"})
    => ((expPc = "panicked" /\ argv_terms = <<>>)
          <=> Cardinality(MultiValued) >= 2)

\* C14: a task whose process is being or has been spawned has its output
\* file created; the process runs with stdout and stderr on <name>.out; the
\* step into Running starts from a state where the file is created.
C14_FileBeforeSpawn ==
  /\ [](\A t \in DOMAIN st : st[t] \in {"Opened", "Running"} => created[t])
  /\ [](\A t \in DOMAIN st :
          st[t] = "Running" =>
            stdio[t] = [out |-> <<name[t], ".out">>, err |-> <<name[t], ".out">>])
  /\ [][\A t \in DOMAIN st :
          (st[t] # "Running" /\ st'[t] = "Running")
            => (st[t] = "Opened" /\ created[t])]_vars

C14_Witness ==
  \E t \in DOMAIN st :
    /\ st[t] = "Running"
    /\ created[t]
    /\ stdio[t].out = OutFile(name[t])
    /\ stdio[t].err = OutFile(name[t])

\* the job of task t holds its output file open, itself or through its child
HasOpen(t) == st[t] \in {"Opened", "Running"}

\* C15: no two distinct tasks have the same output file open at once.
C15_NeverShared ==
  \A t \in DOMAIN st : \A u \in DOMAIN st :
    (t # u /\ HasOpen(t) /\ HasOpen(u)) => OutFile(name[t]) # OutFile(name[u])

\* C19: a failed register_loader leaves loaders and loaded_opts as they were,
\* and loaded_opts is the union of the options of the registered loaders.
C19_FailedRegisterNoChange ==
  /\ lastReg.res = "err" =>
       (loaders = lastReg.loaders /\ loaded_opts = lastReg.loaded_opts)
  /\ loaded_opts = DeclaredBy(loaders)

\* C20 as stated: tasks leave Queued from the back of the list, and with one
\* worker a task is launched only after every task behind it in the list.
C20_LastLaunchedFirst ==
  /\ \A t \in DOMAIN st : \A u \in DOMAIN st :
       (t < u /\ st[t] # "Queued") => st[u] # "Queued"
  /\ num_cores = 1 =>
       \A t \in DOMAIN launched : \A u \in DOMAIN launched :
         (t < u /\ launched[t] > 0) => launched[u] > 0

\* C20 amended: tasks leave Queued from the back of the list; with one worker
\* no task is launched while one is still queued, and the tasks are then
\* launched in list order, the first task of the list first.
C20_ClaimedBackLaunchedFront ==
  /\ \A t \in DOMAIN st : \A u \in DOMAIN st :
       (t < u /\ st[t] # "Queued") => st[u] # "Queued"
  /\ num_cores = 1 =>
       \A t \in DOMAIN launched : \A u \in DOMAIN launched :
         /\ launched[t] > 0 => st[u] # "Queued"
         /\ (t < u /\ launched[u] > 0) => launched[t] > 0

C20_Witness ==
  /\ num_cores = 1
  /\ Len(cmd) >= 2
  /\ DOMAIN launched = 1..Len(cmd)
  /\ launched[1] > 0
  /\ launched[Len(cmd)] = 0
  /\ \A t \in DOMAIN st : st[t] # "Queued"

\* C16: gen_exec_entry_pair returns the pairs of the bench set of the given
\* name, one per bench in bench order, wherever the set stands in the list,
\* and the empty list for a name that no set has.
C16_PairsOfNamedSet ==
  query # "none" =>
    /\ \A k \in DOMAIN benchsets :
         benchsets[k].name = query => pairs = PairsOf(benchsets[k])
    /\ (\A k \in DOMAIN benchsets : benchsets[k].name # query) => pairs = <<>>

====
